---- MODULE Spec2Model ----
(***************************************************************************)
(* Model of src/fourier_transform/mel.py: the Hz <-> Mel conversions and   *)
(* create_mel_filterbanks.                                                 *)
(*                                                                         *)
(* Numbers.  Python floats are modelled by integers of bounded size:       *)
(*   - a frequency handed to or returned by a conversion counts 1/UNIT Hz, *)
(*     a Mel value counts 1/UNIT Mel (fixed point, 14 fractional bits);    *)
(*   - np.log10 and np.power are computed, in fixed point with 28          *)
(*     fractional bits, by the binary-logarithm and binary-power digit     *)
(*     recurrences;                                                        *)
(*   - inside create_mel_filterbanks a frequency counts 1/Res Hz ("ticks"),*)
(*     where Res is chosen per call like a floating-point exponent; the    *)
(*     entries of M are exact fractions [num, den] in 1/tick, i.e. the     *)
(*     code's value divided by the positive constant Res of the call;      *)
(*     den = 0 encodes the IEEE non-finite values (0/0 NaN, x/0 infinite). *)
(* Every intermediate value stays below 2^31.                              *)
(***************************************************************************)
EXTENDS Integers, Sequences, FiniteSets

\* ------------------------------------------------------------------ bounds
MaxBands == 4
MaxFrame == 8
MaxSteps == 64

\* sample rates of the valid configurations (at 1074 Hz, 4 bands and a frame of
\* 6 an FFT bin falls on a band's centre), and of the degenerate ones
SampleRates == {1, 3, 1074, 2000, 4001, 8000}
DegenerateRates == {0 - 1000, 0}

\* ------------------------------------------------------- fixed-point units
UNIT == 2^14
ARG == 2^24
ONE == 2^28
Iterations == 3 * 8

Abs(a) == IF a < 0 THEN 0 - a ELSE a
Max2(a, b) == IF a < b THEN b ELSE a

\* floor(a * b / c) for c > 0, b >= 0, without forming a * b
MulDiv(a, b, c) == (a \div c) * b + ((a % c) * b) \div c

\* the product of two numbers that count 1/ONE, again counting 1/ONE
MulW(a, b) ==
    LET ah == a \div UNIT
        al == a % UNIT
        bh == b \div UNIT
        bl == b % UNIT
    IN  ah * bh + (ah * bl + al * bh) \div UNIT + (al * bl) \div ONE

\* log10(2) and log2(10), counting 1/ONE
LOG10_2 == 80807124
LOG2_10 == 891723283

\* 2^(2^-k) for k = 1 .. Iterations, counting 1/ONE
Pow2Root ==
    << 379625062, 319225354, 292730940, 280320109, 274313427, 271358526,
       269893034, 269163258, 268799111, 268617222, 268526324, 268480886,
       268458170, 268446813, 268441134, 268438295, 268436876, 268436166,
       268435811, 268435633, 268435545, 268435500, 268435478, 268435467 >>

\* log2 of a mantissa in [1, 2) counting 1/ONE: k more binary digits, by squaring
RECURSIVE Log2Frac(_, _)
Log2Frac(mant, k) ==
    IF k = 0 THEN 0
    ELSE LET y == MulW(mant, mant)
         IN  IF y >= 2 * ONE
             THEN 2^(28 - (Iterations - k + 1)) + Log2Frac(y \div 2, k - 1)
             ELSE Log2Frac(y, k - 1)

\* log2 of x > 0 counting 1/ARG; the result counts 1/ONE
RECURSIVE Log2W(_)
Log2W(x) ==
    IF x >= 2 * ARG THEN ONE + Log2W(x \div 2)
    ELSE IF x < ARG THEN Log2W(2 * x) - ONE
    ELSE Log2Frac(x * 16, Iterations)

\* 2^fr for 0 <= fr < 1 counting 1/ONE: the product of the roots its digits select
RECURSIVE Pow2Frac(_, _)
Pow2Frac(fr, k) ==
    IF k > Iterations THEN ONE
    ELSE LET rest == Pow2Frac(fr, k + 1)
         IN  IF (fr \div 2^(28 - k)) % 2 = 1 THEN MulW(Pow2Root[k], rest) ELSE rest

Shift(p, s) == IF s >= 0 THEN p * 2^s ELSE p \div 2^(0 - s)

\* np.log10 of x > 0 (x counts 1/ARG, the result 1/ONE)
np_log10(x) == MulW(Log2W(x), LOG10_2)

\* np.power(10, y) (y counts 1/ONE, the result 1/ARG)
np_power10(y) ==
    LET z == MulW(y, LOG2_10)
    IN  Shift(Pow2Frac(z % ONE, 1), (z \div ONE) - 4)

\* ------------------------------------------------------------ conversions
HzToMelWith(f, scale) == MulDiv(np_log10(ARG + MulDiv(f, 2^10, 700)), scale, UNIT)

MelToHzWith(m, scale) == MulDiv(np_power10(MulDiv(m, UNIT, scale)) - ARG, 700, 2^10)

\* the scale constant as line 13 and as line 24 write it
MelScaleForward == 2592
MelScaleInverse == 2592

convert_hz_to_mel(f) == HzToMelWith(f, MelScaleForward)

convert_mel_to_hz_2595(m) == MelToHzWith(m, 2595)

convert_mel_to_hz(m) == MelToHzWith(m, MelScaleInverse)

\* ------------------------------------------------------------- fractions
\* n / d in canonical form: positive denominator, one zero, signed infinities, NaN
Sign(a) == IF a < 0 THEN 0 - 1 ELSE IF a > 0 THEN 1 ELSE 0

Rat(n, d) ==
    IF d = 0 THEN [num |-> Sign(n), den |-> 0]
    ELSE IF n = 0 THEN [num |-> 0, den |-> 1]
    ELSE IF d < 0 THEN [num |-> 0 - n, den |-> 0 - d]
    ELSE [num |-> n, den |-> d]

Zero == Rat(0, 1)
IsNaN(x) == x.den = 0 /\ x.num = 0
IsFinite(x) == x.den # 0

\* a < b for a, b that are not NaN (an infinity has den = 0)
RatLess(a, b) == a.num * b.den < b.num * a.den

RatMul(a, b) == Rat(a.num * b.num, a.den * b.den)

\* np.minimum and np.maximum propagate NaN
np_minimum(a, b) ==
    IF IsNaN(a) THEN a ELSE IF IsNaN(b) THEN b ELSE IF RatLess(b, a) THEN b ELSE a

np_maximum(a, b) ==
    IF IsNaN(a) THEN a ELSE IF IsNaN(b) THEN b ELSE IF RatLess(a, b) THEN b ELSE a

\* ------------------------------------------------------------ numpy pieces
\* np.linspace(start, stop, num) for num >= 0, over indices 0 .. num-1
np_linspace(start, stop, num) ==
    [k \in 0 .. (num - 1) |->
        IF num = 1 THEN start ELSE start + (k * (stop - start)) \div (num - 1)]

\* np.diff of an array indexed from 0
np_diff(a) ==
    [k \in 0 .. (Cardinality(DOMAIN a) - 2) |-> a[k + 1] - a[k]]

\* np.subtract.outer(a, b)
np_subtract_outer(a, b) ==
    [k \in DOMAIN a |-> [j \in DOMAIN b |-> a[k] - b[j]]]

\* np.zeros(shape=(rows, cols)) for rows >= 0
np_zeros(rows, cols) ==
    [r \in 0 .. (rows - 1) |-> [j \in 0 .. (cols - 1) |-> Zero]]

\* ticks per Hz of one call: a power of two that keeps |sr| / 2 within 13 bits,
\* times the number of FFT bin intervals, so that every FFT bin is a whole tick
RECURSIVE Log2Floor(_)
Log2Floor(q) == IF q <= 1 THEN 0 ELSE 1 + Log2Floor(q \div 2)

TicksPerHz(rate) ==
    IF rate = 0 THEN 2 ELSE 2 * 2^Log2Floor((2^13) \div Abs(rate))

Res(frame, rate) == TicksPerHz(rate) * Max2(frame \div 2, 1)

\* a frequency counting 1/UNIT Hz, in ticks
ToTicks(f, frame, rate) == MulDiv(f, Res(frame, rate), UNIT)

\* --------------------------------------------------- create_mel_filterbanks
\* sr / 2 (true division), counting 1/UNIT Hz
NyquistFloor(rate) == (rate \div 2) * UNIT

Nyquist(rate) == (rate * UNIT) \div 2

\* (frame_size // 2) + 1 points from 0 to sr // 2, in ticks
FftBinsShort(frame, rate) ==
    np_linspace(0, (rate \div 2) * Res(frame, rate), frame \div 2)

FftBins(frame, rate) ==
    np_linspace(0, (rate \div 2) * Res(frame, rate), (frame \div 2) + 1)

\* one entry of a row: the two slopes intersected and clipped at zero
TriangleUnclipped(rising, falling) == np_minimum(rising, falling)

TriangleUnion(rising, falling) == np_maximum(Zero, np_maximum(rising, falling))

Triangle(rising, falling) == np_maximum(Zero, np_minimum(rising, falling))

RisingSlope(centers_diffs, widths, row, j) ==
    Rat(0 - centers_diffs[row][j], widths[row])

FallingSlopeShifted(centers_diffs, widths, row, j) ==
    Rat(centers_diffs[row + 1][j], widths[row + 1])

FallingSlope(centers_diffs, widths, row, j) ==
    Rat(centers_diffs[row + 2][j], widths[row + 1])

\* 2.0 / (mel_centers_hz[2 : n + 2] - mel_centers_hz[:n])
EnormLeftWidth(centers, n) ==
    [r \in 0 .. (n - 1) |-> Rat(2, centers[r + 1] - centers[r])]

EnormOne(centers, n) ==
    [r \in 0 .. (n - 1) |-> Rat(1, centers[r + 2] - centers[r])]

Enorm(centers, n) ==
    [r \in 0 .. (n - 1) |-> Rat(2, centers[r + 2] - centers[r])]

VARIABLES pc, hz, mel, back,
          num_mel_bands, frame_size, sr,
          lowest_freq, highest_freq, mel_centers, mel_centers_hz, fft_bins,
          M, mel_band_widths, mel_to_fft_diffs, i, enorm

args == << num_mel_bands, frame_size, sr >>
convVars == << hz, mel, back >>
locals == << lowest_freq, highest_freq, mel_centers, mel_centers_hz, fft_bins,
             M, mel_band_widths, mel_to_fft_diffs, i, enorm >>
vars == << pc, convVars, args, locals >>

NoLocals ==
    /\ lowest_freq = 0
    /\ highest_freq = 0
    /\ mel_centers = << >>
    /\ mel_centers_hz = << >>
    /\ fft_bins = << >>
    /\ M = << >>
    /\ mel_band_widths = << >>
    /\ mel_to_fft_diffs = << >>
    /\ i = 0
    /\ enorm = << >>

\* ---------------------------------------------------- the conversions alone
HzStep == 64 * UNIT + 7
MelStep == 32 * UNIT + 5

InitConvert ==
    /\ \E k \in 0 .. MaxSteps :
          \/ pc = "call_hz_to_mel" /\ hz = k * HzStep /\ mel = 0
          \/ pc = "call_mel_to_hz" /\ mel = k * MelStep /\ hz = 0
    /\ back = 0
    /\ num_mel_bands = 0 /\ frame_size = 0 /\ sr = 0
    /\ NoLocals

HzToMel ==
    /\ pc = "call_hz_to_mel"
    /\ mel' = convert_hz_to_mel(hz)
    /\ pc' = "hz_to_mel_returned"
    /\ UNCHANGED << hz, back, args, locals >>

MelBackToHz ==
    /\ pc = "hz_to_mel_returned"
    /\ back' = convert_mel_to_hz(mel)
    /\ pc' = "hz_round_trip"
    /\ UNCHANGED << hz, mel, args, locals >>

MelToHz ==
    /\ pc = "call_mel_to_hz"
    /\ hz' = convert_mel_to_hz(mel)
    /\ pc' = "mel_to_hz_returned"
    /\ UNCHANGED << mel, back, args, locals >>

HzBackToMel ==
    /\ pc = "mel_to_hz_returned"
    /\ back' = convert_hz_to_mel(hz)
    /\ pc' = "mel_round_trip"
    /\ UNCHANGED << hz, mel, args, locals >>

NextConvert == HzToMel \/ MelBackToHz \/ MelToHz \/ HzBackToMel

SpecConvert == InitConvert /\ [][NextConvert]_vars

\* ------------------------------------------------ create_mel_filterbanks run
Entry ==
    /\ pc = "mel_range"
    /\ hz = 0 /\ mel = 0 /\ back = 0
    /\ NoLocals

Init ==
    /\ num_mel_bands \in 1 .. MaxBands
    /\ frame_size \in 1 .. MaxFrame
    /\ sr \in SampleRates
    /\ Entry

InitDegenerate ==
    /\ num_mel_bands \in (0 - MaxBands) .. MaxBands
    /\ frame_size \in 1 .. MaxFrame
    /\ sr \in SampleRates \cup DegenerateRates
    /\ (num_mel_bands <= 0 \/ sr <= 0)
    /\ Entry

\* lines 45-46; the guarded variant fails fast on a non-positive argument
MelRangeGuarded ==
    /\ pc = "mel_range"
    /\ IF num_mel_bands < 1 \/ frame_size < 1 \/ sr < 1
       THEN /\ pc' = "raised"
            /\ UNCHANGED << lowest_freq, highest_freq >>
       ELSE /\ lowest_freq' = convert_hz_to_mel(0)
            /\ highest_freq' = convert_hz_to_mel(Nyquist(sr))
            /\ pc' = "mel_centers"
    /\ UNCHANGED << convVars, args, mel_centers, mel_centers_hz, fft_bins, M,
                    mel_band_widths, mel_to_fft_diffs, i, enorm >>

MelRange ==
    /\ pc = "mel_range"
    /\ lowest_freq' = convert_hz_to_mel(0)
    /\ highest_freq' = convert_hz_to_mel(Nyquist(sr))
    /\ pc' = "mel_centers"
    /\ UNCHANGED << convVars, args, mel_centers, mel_centers_hz, fft_bins, M,
                    mel_band_widths, mel_to_fft_diffs, i, enorm >>

\* line 49; np.linspace raises ValueError for a negative number of samples
MelCenters ==
    /\ pc = "mel_centers"
    /\ IF num_mel_bands + 2 < 0
       THEN /\ pc' = "raised"
            /\ UNCHANGED mel_centers
       ELSE /\ mel_centers' = np_linspace(lowest_freq, highest_freq, num_mel_bands + 2)
            /\ pc' = "centers_hz"
    /\ UNCHANGED << convVars, args, lowest_freq, highest_freq, mel_centers_hz,
                    fft_bins, M, mel_band_widths, mel_to_fft_diffs, i, enorm >>

\* line 52
CentersHz ==
    /\ pc = "centers_hz"
    /\ mel_centers_hz' =
          [k \in DOMAIN mel_centers |->
              ToTicks(convert_mel_to_hz(mel_centers[k]), frame_size, sr)]
    /\ pc' = "fft_bins"
    /\ UNCHANGED << convVars, args, lowest_freq, highest_freq, mel_centers,
                    fft_bins, M, mel_band_widths, mel_to_fft_diffs, i, enorm >>

\* line 55
ComputeFftBins ==
    /\ pc = "fft_bins"
    /\ fft_bins' = FftBins(frame_size, sr)
    /\ pc' = "alloc"
    /\ UNCHANGED << convVars, args, lowest_freq, highest_freq, mel_centers,
                    mel_centers_hz, M, mel_band_widths, mel_to_fft_diffs, i, enorm >>

\* line 58; np.zeros raises ValueError for a negative dimension
AllocM ==
    /\ pc = "alloc"
    /\ IF num_mel_bands < 0
       THEN /\ pc' = "raised"
            /\ UNCHANGED M
       ELSE /\ M' = np_zeros(num_mel_bands, (frame_size \div 2) + 1)
            /\ pc' = "widths"
    /\ UNCHANGED << convVars, args, lowest_freq, highest_freq, mel_centers,
                    mel_centers_hz, fft_bins, mel_band_widths, mel_to_fft_diffs,
                    i, enorm >>

\* line 61
Widths ==
    /\ pc = "widths"
    /\ mel_band_widths' = np_diff(mel_centers_hz)
    /\ pc' = "diffs"
    /\ UNCHANGED << convVars, args, lowest_freq, highest_freq, mel_centers,
                    mel_centers_hz, fft_bins, M, mel_to_fft_diffs, i, enorm >>

\* line 64, and the loop's entry at line 67
Diffs ==
    /\ pc = "diffs"
    /\ mel_to_fft_diffs' = np_subtract_outer(mel_centers_hz, fft_bins)
    /\ i' = 0
    /\ pc' = "loop"
    /\ UNCHANGED << convVars, args, lowest_freq, highest_freq, mel_centers,
                    mel_centers_hz, fft_bins, M, mel_band_widths, enorm >>

\* lines 67-73, one iteration
LoopBody ==
    /\ pc = "loop"
    /\ i < num_mel_bands
    /\ M' = [M EXCEPT ![i] =
                [j \in DOMAIN fft_bins |->
                    Triangle(RisingSlope(mel_to_fft_diffs, mel_band_widths, i, j),
                             FallingSlope(mel_to_fft_diffs, mel_band_widths, i, j))]]
    /\ i' = i + 1
    /\ UNCHANGED << pc, convVars, args, lowest_freq, highest_freq, mel_centers,
                    mel_centers_hz, fft_bins, mel_band_widths, mel_to_fft_diffs,
                    enorm >>

LoopExit ==
    /\ pc = "loop"
    /\ i >= num_mel_bands
    /\ pc' = "normalize"
    /\ UNCHANGED << convVars, args, locals >>

\* lines 76-77
Normalize ==
    /\ pc = "normalize"
    /\ enorm' = Enorm(mel_centers_hz, num_mel_bands)
    /\ M' = [r \in DOMAIN M |-> [j \in DOMAIN M[r] |-> RatMul(M[r][j], enorm'[r])]]
    /\ pc' = "return"
    /\ UNCHANGED << convVars, args, lowest_freq, highest_freq, mel_centers,
                    mel_centers_hz, fft_bins, mel_band_widths, mel_to_fft_diffs, i >>

\* line 79
Return ==
    /\ pc = "return"
    /\ pc' = "done"
    /\ UNCHANGED << convVars, args, locals >>

Next ==
    \/ MelRange
    \/ MelCenters
    \/ CentersHz
    \/ ComputeFftBins
    \/ AllocM
    \/ Widths
    \/ Diffs
    \/ LoopBody
    \/ LoopExit
    \/ Normalize
    \/ Return

Spec == Init /\ [][Next]_vars

SpecDegenerate == InitDegenerate /\ [][Next]_vars

\* ================================================================ properties
Done == pc = "done"
Rows == 0 .. (num_mel_bands - 1)
Bins == DOMAIN fft_bins
IsZero(x) == x.num = 0 /\ x.den # 0
IsPos(x) == x.num > 0 /\ x.den > 0

\* a/b < c/d for a, c >= 0 and b, d > 0, by the continued-fraction expansion
\* (exact, and no product is formed)
RECURSIVE FracLess(_, _, _, _)
FracLess(a, b, c, d) ==
    LET qa == a \div b
        qc == c \div d
        ra == a % b
        rc == c % d
    IN  IF qa # qc THEN qa < qc
        ELSE IF rc = 0 THEN FALSE
        ELSE IF ra = 0 THEN TRUE
        ELSE FracLess(d, rc, b, ra)

RatLe(x, y) == ~FracLess(y.num, y.den, x.num, x.den)
RatEq(x, y) == RatLe(x, y) /\ RatLe(y, x)

\* the triangle of row r at bin j as the specification writes it
SpecRising(r, j) ==
    Rat(fft_bins[j] - mel_centers_hz[r], mel_centers_hz[r + 1] - mel_centers_hz[r])
SpecFalling(r, j) ==
    Rat(mel_centers_hz[r + 2] - fft_bins[j], mel_centers_hz[r + 2] - mel_centers_hz[r + 1])
SpecWeight(r, j) ==
    LET lo == IF RatLess(SpecFalling(r, j), SpecRising(r, j))
              THEN SpecFalling(r, j) ELSE SpecRising(r, j)
    IN  IF lo.num < 0 THEN Zero ELSE lo
BandWidth(r) == mel_centers_hz[r + 2] - mel_centers_hz[r]
SpecEntry(r, j) == Rat(2 * SpecWeight(r, j).num, BandWidth(r) * SpecWeight(r, j).den)

Inside(r, j) ==
    mel_centers_hz[r] < fft_bins[j] /\ fft_bins[j] < mel_centers_hz[r + 2]
Outside(r, j) ==
    fft_bins[j] < mel_centers_hz[r] \/ fft_bins[j] > mel_centers_hz[r + 2]
Nearest(r) ==
    {j \in Bins : \A k \in Bins :
        Abs(fft_bins[j] - mel_centers_hz[r + 1]) <= Abs(fft_bins[k] - mel_centers_hz[r + 1])}

\* ------------------------------------------------------------------------ C1
\* C1: the returned matrix has num_mel_bands rows and frame_size // 2 + 1
\* columns, for odd and even frame_size, and there are as many FFT bin
\* frequencies as columns.
C1_Shape ==
    Done =>
        /\ DOMAIN M = 0 .. (num_mel_bands - 1)
        /\ Cardinality(DOMAIN M) = num_mel_bands
        /\ \A r \in DOMAIN M :
              /\ DOMAIN M[r] = 0 .. (frame_size \div 2)
              /\ Cardinality(DOMAIN M[r]) = (frame_size \div 2) + 1
              /\ DOMAIN M[r] = DOMAIN fft_bins

C1_Witness ==
    /\ Done
    /\ frame_size % 2 = 1 /\ frame_size >= 3
    /\ num_mel_bands >= 2
    /\ Cardinality(DOMAIN M[0]) = (frame_size \div 2) + 1

\* ------------------------------------------------------------------------ C2
\* C2: every entry of M is >= 0, in every state of the call: in the rows the
\* loop has clipped and in the matrix after the per-row normalisation.
C2_NonNegative ==
    \A r \in DOMAIN M : \A j \in DOMAIN M[r] :
        M[r][j].den > 0 /\ M[r][j].num >= 0

C2_Witness ==
    /\ Done
    /\ \E r \in DOMAIN M : \E j \in DOMAIN M[r] : IsPos(M[r][j])
    /\ \E r \in DOMAIN M : \E j \in DOMAIN M[r] :
          RatLess(np_minimum(SpecRising(r, j), SpecFalling(r, j)), Zero)

\* ------------------------------------------------------------------------ C3
\* C3 as stated: row r is zero outside [centers[r], centers[r+2]] and strictly
\* positive at the FFT bin nearest to centers[r+1].
C3_Original ==
    Done =>
        \A r \in Rows :
            /\ \A j \in Bins : Outside(r, j) => IsZero(M[r][j])
            /\ \A j \in Nearest(r) : IsPos(M[r][j])

\* C3 amended: row r is zero at every bin that is not strictly inside
\* (centers[r], centers[r+2]) and strictly positive at every bin strictly
\* inside; a row whose band holds no bin is identically zero.
C3_Support ==
    Done =>
        \A r \in Rows : \A j \in Bins :
            /\ Outside(r, j) => IsZero(M[r][j])
            /\ Inside(r, j) <=> IsPos(M[r][j])
            /\ ~Inside(r, j) <=> IsZero(M[r][j])

C3_Witness ==
    /\ Done
    /\ Cardinality(Bins) >= 2
    /\ \E r \in Rows :
          /\ BandWidth(r) < fft_bins[1] - fft_bins[0]
          /\ \A j \in Bins : IsZero(M[r][j])
    /\ \E r \in Rows : \E j \in Bins : Inside(r, j) /\ IsPos(M[r][j])

\* ------------------------------------------------------------------------ C4
\* C4: the Hz centres are strictly increasing, so every band width and every
\* normalisation denominator is strictly positive, no division is by zero and
\* no entry of M is NaN or infinite.
C4_NoDivisionByZero ==
    /\ \A k \in DOMAIN mel_centers_hz :
          (k + 1) \in DOMAIN mel_centers_hz => mel_centers_hz[k] < mel_centers_hz[k + 1]
    /\ \A k \in DOMAIN mel_band_widths : mel_band_widths[k] > 0
    /\ pc \in {"normalize", "return", "done"} => \A r \in Rows : BandWidth(r) > 0
    /\ \A r \in DOMAIN enorm : IsFinite(enorm[r]) /\ enorm[r].num > 0
    /\ \A r \in DOMAIN M : \A j \in DOMAIN M[r] : IsFinite(M[r][j])

C4_Witness ==
    /\ Done
    /\ num_mel_bands >= 2
    /\ sr = 1
    /\ \A r \in Rows : IsFinite(enorm[r])
    /\ \A k \in DOMAIN mel_band_widths : mel_band_widths[k] > 0

\* ------------------------------------------------------------------------ C5
\* C5: the two conversions are inverses of each other on the non-negative
\* domain, within the tolerance of the arithmetic (1e-6 of f + 700 Hz, and
\* 2^-11 Mel), and each maps 0 to 0.
C5_RoundTrip ==
    /\ pc = "hz_round_trip" => Abs(back - hz) <= (hz + 700 * UNIT) \div 1000000
    /\ pc = "mel_round_trip" => Abs(back - mel) <= 8
    /\ (pc = "hz_to_mel_returned" /\ hz = 0) => mel = 0
    /\ (pc = "mel_to_hz_returned" /\ mel = 0) => hz = 0

C5_Witness ==
    /\ pc = "hz_round_trip"
    /\ hz = MaxSteps * HzStep
    /\ mel > 0
    /\ Abs(back - hz) <= (hz + 700 * UNIT) \div 1000000

\* ------------------------------------------------------------------------ C6
\* C6 as stated: convert_hz_to_mel(f) is 2595 * log10(1 + f / 700).
C6_Scale2595 ==
    pc = "hz_to_mel_returned" => mel = HzToMelWith(hz, 2595)

\* ------------------------------------------------------------------------ C7
\* exact integers as residues modulo 21 primes below 2^15.5 (their product
\* exceeds 2^325; a row sum's numerator and denominator stay below 2^158)
Primes ==
    << 46337, 46327, 46309, 46307, 46301, 46279, 46273, 46271, 46261, 46237, 46229,
       46219, 46199, 46187, 46183, 46181, 46171, 46153, 46147, 46141, 46133 >>
Rns(n) == [p \in DOMAIN Primes |-> n % Primes[p]]
RnsAdd(a, b) == [p \in DOMAIN Primes |-> (a[p] + b[p]) % Primes[p]]
RnsMul(a, b) == [p \in DOMAIN Primes |-> (a[p] * b[p]) % Primes[p]]

\* the sum of M[r][0 .. j-1] as an exact fraction
RECURSIVE RowSum(_, _)
RowSum(r, j) ==
    IF j = 0 THEN [num |-> Rns(0), den |-> Rns(1)]
    ELSE LET s == RowSum(r, j - 1)
             e == M[r][j - 1]
         IN  [num |-> RnsAdd(RnsMul(s.num, Rns(e.den)), RnsMul(Rns(e.num), s.den)),
              den |-> RnsMul(s.den, Rns(e.den))]

RowSumsEqual(r, q) ==
    LET a == RowSum(r, Cardinality(Bins))
        b == RowSum(q, Cardinality(Bins))
    IN  RnsMul(a.num, b.den) = RnsMul(b.num, a.den)

\* C7 as stated: after normalisation the sum of a row is the same for every
\* row, whatever the band's width.
C7_EqualRowSums ==
    Done => \A r \in Rows : \A q \in Rows : RowSumsEqual(r, q)

\* C7 amended: row r is scaled by enorm[r] = 2 / (centers[r+2] - centers[r]),
\* the height that gives the triangle over [centers[r], centers[r+2]] the area
\* 1 whatever its width: half the base times the height is 1, and every entry
\* of the row is the triangle's weight times that height, at most the height.
C7_UnitArea ==
    Done =>
        \A r \in Rows :
            /\ enorm[r].den > 0
            /\ enorm[r].num * BandWidth(r) = 2 * enorm[r].den
            /\ \A j \in Bins :
                  /\ RatEq(M[r][j], RatMul(SpecWeight(r, j), enorm[r]))
                  /\ RatLe(M[r][j], enorm[r])

C7_Witness ==
    /\ Done
    /\ \E r \in Rows : \E q \in Rows :
          /\ BandWidth(r) < BandWidth(q)
          /\ ~RowSumsEqual(r, q)
          /\ \E j \in Bins : IsPos(M[r][j])
          /\ \E j \in Bins : IsPos(M[q][j])

\* ------------------------------------------------------------------------ C8
\* C8: the maximum of row r is at the FFT bin nearest to centers[r+1] or at a
\* bin next to it: no entry of the row exceeds all of these.
PeakBins(k) == {k - 1, k, k + 1} \cap Bins

C8_PeakNearCentre ==
    Done =>
        \A r \in Rows : \A k \in Nearest(r) : \A j \in Bins :
            \E t \in PeakBins(k) : RatLe(M[r][j], M[r][t])

C8_Witness ==
    /\ Done
    /\ \E r \in Rows : \E k \in Nearest(r) :
          /\ ~IsPos(M[r][k]) \/ \E t \in PeakBins(k) : t # k /\ ~RatLe(M[r][t], M[r][k])
          /\ \E j \in Bins : IsPos(M[r][j])
          /\ \E j \in Bins : j \notin PeakBins(k) /\ IsPos(M[r][j])

\* ------------------------------------------------------------------------ C9
\* C9: every returned entry is 2 / (centers[r+2] - centers[r]) times
\* max(0, min(rising, falling)), the centres being num_mel_bands + 2 points
\* evenly spaced in Mel from 0 to sr / 2 and the FFT bins frame_size // 2 + 1
\* points evenly spaced from 0 to sr // 2; the weight is 1 at a bin at
\* centers[r+1], and no entry exceeds 2 / (centers[r+2] - centers[r]).
C9_EntryFormula ==
    Done =>
        /\ \A r \in Rows : \A j \in Bins :
              /\ RatEq(M[r][j], SpecEntry(r, j))
              /\ RatLe(M[r][j], Rat(2, BandWidth(r)))
              /\ fft_bins[j] = mel_centers_hz[r + 1] => RatEq(M[r][j], Rat(2, BandWidth(r)))
        /\ DOMAIN mel_centers = 0 .. (num_mel_bands + 1)
        /\ mel_centers[0] = 0
        /\ mel_centers[num_mel_bands + 1] = convert_hz_to_mel((sr * UNIT) \div 2)
        /\ \A k \in 1 .. num_mel_bands :
              Abs((mel_centers[k + 1] - mel_centers[k])
                  - (mel_centers[k] - mel_centers[k - 1])) <= 1
        /\ \A k \in DOMAIN mel_centers :
              mel_centers_hz[k] = ToTicks(convert_mel_to_hz(mel_centers[k]), frame_size, sr)
        /\ \A j \in Bins :
              fft_bins[j] * Max2(frame_size \div 2, 1) = j * (sr \div 2) * Res(frame_size, sr)

C9_Witness ==
    /\ Done
    /\ \E r \in Rows : \E j \in Bins :
          /\ IsPos(M[r][j]) /\ RatLess(SpecRising(r, j), SpecFalling(r, j))
          /\ RatEq(M[r][j], SpecEntry(r, j))
    /\ \E r \in Rows : \E j \in Bins :
          /\ IsPos(M[r][j]) /\ RatLess(SpecFalling(r, j), SpecRising(r, j))
          /\ RatEq(M[r][j], SpecEntry(r, j))
    /\ \E r \in Rows : \E j \in Bins :
          /\ fft_bins[j] = mel_centers_hz[r + 1]
          /\ RatEq(M[r][j], enorm[r])
          /\ RatEq(SpecWeight(r, j), Rat(1, 1))

\* ----------------------------------------------------------------------- C10
\* C10 as stated: no degenerate configuration makes the call raise.
C10_NeverRaises == pc # "raised"

\* C10 amended: the call raises nothing for sr <= 0 or num_mel_bands = 0 and
\* returns what the arithmetic yields (for sr = 0 coinciding centres, zero
\* widths and a matrix of NaN); for num_mel_bands < 0 the array library
\* rejects the negative size and the call ends in its ValueError.
C10_RaisesOnlyForNegativeBands ==
    /\ pc = "raised" => num_mel_bands < 0
    /\ num_mel_bands < 0 =>
          pc \in {"mel_range", "mel_centers", "centers_hz", "fft_bins", "alloc", "raised"}
    /\ (Done /\ sr = 0) =>
          /\ \A k \in DOMAIN mel_centers_hz : mel_centers_hz[k] = 0
          /\ \A k \in DOMAIN mel_band_widths : mel_band_widths[k] = 0
          /\ \A r \in DOMAIN M : \A j \in DOMAIN M[r] : IsNaN(M[r][j])
    /\ (Done /\ num_mel_bands = 0) => M = << >>

C10_Witness ==
    /\ Done
    /\ sr = 0
    /\ num_mel_bands >= 1
    /\ \A r \in DOMAIN M : \A j \in DOMAIN M[r] : IsNaN(M[r][j])

====
